---- MODULE Spec2Model ----
(***************************************************************************)
(* A state-machine model of pyui's view tree: pyui/views/base.py (View,    *)
(* ForEach) and pyui/views/control.py (Button).  Views are numbered        *)
(* objects; every field of a View the code reads or writes is a function   *)
(* from view to value.  Each public method is one action.                  *)
(***************************************************************************)
EXTENDS Integers, Sequences, FiniteSets, TLC

\* ------------------------------------------------------------------ bounds
NumNodes == 3
MaxCalls == 2
MaxTasks == 2
MaxText == 3

Nodes == 1..NumNodes
\* Python's None, where a View is expected.
NoView == 0
\* Python's None, where an index is expected.
None == -1

VARIABLES
    contents,   \* View.contents: the declared children of each view
    subviews,   \* View.subviews: sequence of views
    parent,     \* View.parent (NoView for None)
    index,      \* View.index (0-based)
    dirty,      \* View.dirty
    frame,      \* View.frame: [x, y, w, h]
    padding,    \* View.padding: [top, left, bottom, right]
    border,     \* View.border
    kind,       \* the class of each view
    interactive,\* View.interactive (a filterable attribute)
    ownEnv,     \* TRUE when the view was constructed with env=Environment(...)
    envOwn,     \* per Environment instance: the fields it overrides
    envInh,     \* per Environment instance: the fields it inherited
    action,     \* Button.action: "none", "sync" or "async"
    tasks,      \* the event loop's detached tasks, in creation order
    syncRuns,   \* completed synchronous runs of the button's action
    ncalls,     \* number of content reassignments so far
    screen,     \* the viewports the frame driver lays the tree out in
    minimum,    \* Slider.minimum
    maximum,    \* Slider.maximum
    current,    \* Slider.current.value: the bound value
    text,       \* TextField.text.value: the bound text, a sequence of characters
    _start,     \* TextField._start (None or an index)
    _end,       \* TextField._end (None or an index)
    op          \* the last operation: its name, receiver, inputs and outcome

treeVars == <<subviews, parent, index>>
cfgVars == <<padding, border, kind, interactive, ownEnv, envOwn, screen>>
btnVars == <<action, tasks, syncRuns>>
ctlVars == <<minimum, maximum, current, text, _start, _end>>
vars == <<contents, subviews, parent, index, dirty, frame, padding, border, kind,
          interactive, ownEnv, envOwn, envInh, action, tasks, syncRuns, ncalls,
          screen, minimum, maximum, current, text, _start, _end, op>>

Max(a, b) == IF a >= b THEN a ELSE b
FirstOf(S) == CHOOSE i \in S : \A j \in S : i <= j

\* ------------------------------------------------------------ declarations
\* A value a declared child may yield: a View, or something else of some type.
V(m) == [isView |-> TRUE, view |-> m, type |-> "View"]
B(t) == [isView |-> FALSE, view |-> NoView, type |-> t]
BadTypes == {"str", "int"}

\* A declared child: a View (yields itself) or a ForEach over backing items.
Vw(m) == [kind |-> "view", node |-> m, items |-> <<>>]
FE(items) == [kind |-> "foreach", node |-> NoView, items |-> items]

\* The builder given to ForEach: wraps the item in a one-element list.
Builder(item) == <<item>>

RECURSIVE ForEachIter(_)
ForEachIter(items) ==
    IF items = <<>> THEN <<>>
    ELSE Builder(Head(items)) \o ForEachIter(Tail(items))

ViewIter(m) == <<V(m)>>

Iter(d) == IF d.kind = "view" THEN ViewIter(d.node) ELSE ForEachIter(d.items)

RECURSIVE FlattenDecls(_)
FlattenDecls(ds) ==
    IF ds = <<>> THEN <<>> ELSE Iter(Head(ds)) \o FlattenDecls(Tail(ds))

content(C, n) == FlattenDecls(C[n])

\* The declarations a view may be given.  A declared view has a larger number
\* than the view declaring it, so no view is declared inside itself.
DeclChoices(n) ==
    LET K == (n + 1)..NumNodes IN
        {<<>>, <<FE(<<>>)>>, <<FE(<<B("int")>>)>>}
        \cup {<<Vw(m)>> : m \in K}
        \cup {<<Vw(m), Vw(k)>> : m \in K, k \in K}
        \cup {<<FE(<<V(q[1]), V(q[2])>>)>> : q \in {p \in K \X K : p[1] < p[2]}}
        \cup {<<Vw(m), FE(<<B("str")>>)>> : m \in K}

AllDecls == UNION {DeclChoices(n) : n \in Nodes}

\* ------------------------------------------------------------- environment
Fields == {"font", "scale"}
Unset == 0
EnvDefault == 1
EnvIds == 0..NumNodes
SharedEnv == 0

\* View.env: the class attribute unless the instance was given its own.
envOf(n) == IF ownEnv[n] THEN n ELSE SharedEnv

ReadEnv(EI, e, f) == IF envOwn[e][f] # Unset THEN envOwn[e][f] ELSE EI[e][f]

\* Environment.inherit: take over every field as the parent reads it.
inherit(EI, e, p) == [EI EXCEPT ![e] = [f \in Fields |-> ReadEnv(EI, p, f)]]

\* ------------------------------------------------------------------ rebuild
NoErr == "none"

\* A rebuild that leaves what it has collected so far in place when it fails.
RaiseNotViewPartial(S, n, new, v) == [S EXCEPT !.err = v.type, !.subviews[n] = new]

\* line 95: raise ValueError naming the type; nothing else is written.
RaiseNotView(S, n, new, v) == [S EXCEPT !.err = v.type]

\* lines 96-98: wire the child.
Wire(S, n, c, idx) ==
    [S EXCEPT !.parent[c] = n, !.index[c] = idx,
              !.envInh = inherit(S.envInh, envOf(c), envOf(n))]

\* line 102: self.subviews = new_subviews
Install(S, n, new) == [S EXCEPT !.subviews[n] = new]

RECURSIVE RebuildLoop(_, _, _, _, _)
RebuildLoop(C, S, n, vals, new) ==
    IF vals = <<>> THEN Install(S, n, new)
    ELSE LET v == Head(vals) IN
         IF ~v.isView THEN RaiseNotView(S, n, new, v)
         ELSE LET c == v.view
                  S1 == Wire(S, n, c, Len(new))
                  S2 == RebuildLoop(C, [S1 EXCEPT !.rebuilt = Append(@, c)],
                                    c, content(C, c), <<>>)
              IN IF S2.err # NoErr THEN S2
                 ELSE RebuildLoop(C, S2, n, Tail(vals), Append(new, c))

Start == [subviews |-> subviews, parent |-> parent, index |-> index,
          envInh |-> envInh, err |-> NoErr, rebuilt |-> <<>>]

rebuild(S, n) ==
    RebuildLoop(contents, [S EXCEPT !.rebuilt = Append(@, n)], n,
                content(contents, n), <<>>)

\* ----------------------------------------------------------------- geometry
Size(w, h) == [w |-> w, h |-> h]
Rect(x, y, w, h) == [x |-> x, y |-> y, w |-> w, h |-> h]
Insets(t, l, b, r) == [top |-> t, left |-> l, bottom |-> b, right |-> r]
InsetsWidth(i) == i.left + i.right
InsetsHeight(i) == i.top + i.bottom
RectSub(r, i) ==
    Rect(r.x + i.left, r.y + i.top, r.w - InsetsWidth(i), r.h - InsetsHeight(i))
PtIn(pt, r) ==
    /\ pt.x >= r.x /\ pt.x < r.x + r.w
    /\ pt.y >= r.y /\ pt.y < r.y + r.h

SliderMinW == 40
SliderH == 20
LeafMinW == 50
LeafMinH == 20

RECURSIVE minimum_size(_, _), MinFold(_, _, _)
MinFold(SV, vs, acc) ==
    IF vs = <<>> THEN acc
    ELSE LET v == Head(vs)
             m == minimum_size(SV, v)
         IN MinFold(SV, Tail(vs),
                Size(Max(m.w, acc.w + InsetsWidth(padding[v]) + InsetsWidth(border[v])),
                     Max(m.h, acc.h + InsetsHeight(padding[v]) + InsetsHeight(border[v]))))

minimum_size(SV, n) ==
    CASE kind[n] = "Slider" -> Size(SliderMinW, SliderH)
      [] kind[n] = "Leaf" -> Size(LeafMinW, LeafMinH)
      [] OTHER -> MinFold(SV, SV[n], Size(0, 0))

content_size(n, available) ==
    IF kind[n] = "Slider" THEN Size(available.w, SliderH) ELSE Size(0, 0)

InsideOfUnclamped(n, available) ==
    Size(available.w - InsetsWidth(padding[n]) - InsetsWidth(border[n]),
         available.h - InsetsHeight(padding[n]) - InsetsHeight(border[n]))

\* lines 153-156
InsideOf(n, available) ==
    Size(Max(0, available.w - InsetsWidth(padding[n]) - InsetsWidth(border[n])),
         Max(0, available.h - InsetsHeight(padding[n]) - InsetsHeight(border[n])))

FrameSizeNoBorder(n, mx, inside) ==
    LET size == content_size(n, inside) IN
        Size(Max(mx.w, size.w) + InsetsWidth(padding[n]),
             Max(mx.h, size.h) + InsetsHeight(padding[n]))

\* lines 161-166
FrameSize(n, mx, inside) ==
    LET size == content_size(n, inside) IN
        Size(Max(mx.w, size.w) + InsetsWidth(padding[n]) + InsetsWidth(border[n]),
             Max(mx.h, size.h) + InsetsHeight(padding[n]) + InsetsHeight(border[n]))

RECURSIVE resize(_, _, _, _), ResizeLoop(_, _, _, _, _)
ResizeLoop(F, SV, vs, inside, mx) ==
    IF vs = <<>> THEN [F |-> F, mx |-> mx]
    ELSE LET F1 == resize(F, SV, Head(vs), inside)
             fr == F1[Head(vs)]
         IN ResizeLoop(F1, SV, Tail(vs), inside,
                       Size(Max(mx.w, fr.w), Max(mx.h, fr.h)))

resize(F, SV, n, available) ==
    LET inside == InsideOf(n, available)
        R == ResizeLoop(F, SV, SV[n], inside, Size(0, 0))
        sz == FrameSize(n, R.mx, inside)
    IN [R.F EXCEPT ![n].w = sz.w, ![n].h = sz.h]

\* lines 172-175
Centered(fr, inside) ==
    [fr EXCEPT !.x = inside.x + ((inside.w - fr.w) \div 2),
               !.y = inside.y + ((inside.h - fr.h) \div 2)]

\* Subviews placed within the rect the view itself was given.
InnerOfWholeRect(F, n, inside) == inside

\* line 176
InnerOf(F, n, inside) == RectSub(RectSub(inside, padding[n]), border[n])

RECURSIVE reposition(_, _, _, _), RepositionLoop(_, _, _, _)
RepositionLoop(F, SV, vs, inner) ==
    IF vs = <<>> THEN F
    ELSE RepositionLoop(reposition(F, SV, Head(vs), inner), SV, Tail(vs), inner)

reposition(F, SV, n, inside) ==
    LET F1 == [F EXCEPT ![n] = Centered(F[n], inside)]
    IN RepositionLoop(F1, SV, SV[n], InnerOf(F1, n, inside))

\* ---------------------------------------------------------------- hierarchy
RECURSIVE RootOf(_, _)
RootOf(P, n) == IF P[n] = NoView THEN n ELSE RootOf(P, P[n])

ClassName(n) == kind[n]

\* ------------------------------------------------------------------ actions
Op(name, n, err, rebuilt, res, arg) ==
    [name |-> name, node |-> n, err |-> err, rebuilt |-> rebuilt, res |-> res,
     arg |-> arg]

\* View.__call__ (lines 76-79)
Call(n, c) ==
    /\ ncalls < MaxCalls
    /\ contents' = [contents EXCEPT ![n] = c]
    /\ ncalls' = ncalls + 1
    /\ op' = Op("call", n, NoErr, <<>>, <<>>, <<>>)
    /\ UNCHANGED <<treeVars, dirty, frame, cfgVars, ctlVars, envInh, btnVars>>

\* View.rebuild (lines 91-102)
Rebuild(n) ==
    LET S == rebuild(Start, n) IN
        /\ subviews' = S.subviews
        /\ parent' = S.parent
        /\ index' = S.index
        /\ envInh' = S.envInh
        /\ op' = Op("rebuild", n, S.err, S.rebuilt, <<>>, <<>>)
        /\ UNCHANGED <<contents, dirty, frame, cfgVars, ctlVars, btnVars, ncalls>>

\* A state_changed that marks the notifying view instead of its root.
MarkDirtySelf(D, P, n) == [D EXCEPT ![n] = TRUE]

\* line 273: self.root.dirty = True
MarkDirty(D, P, n) == [D EXCEPT ![RootOf(P, n)] = TRUE]

\* line 272: self.rebuild()
StateChangedRebuild(n) == rebuild(Start, n)

\* View.state_changed (lines 271-273)
StateChanged(n) ==
    LET S == StateChangedRebuild(n) IN
        /\ subviews' = S.subviews
        /\ parent' = S.parent
        /\ index' = S.index
        /\ envInh' = S.envInh
        /\ dirty' = IF S.err = NoErr THEN MarkDirty(dirty, S.parent, n) ELSE dirty
        /\ op' = Op("state_changed", n, S.err, S.rebuilt, <<>>, <<>>)
        /\ UNCHANGED <<contents, frame, cfgVars, ctlVars, btnVars, ncalls>>

\* A layout that reconciles on every call.
LayoutRebuildAlways(n) == rebuild(Start, n)

\* lines 181-182: if not self.subviews: self.rebuild()
LayoutRebuild(n) == IF subviews[n] = <<>> THEN rebuild(Start, n) ELSE Start

\* line 185: self.dirty = False
ClearDirty(D, n) == [D EXCEPT ![n] = FALSE]

\* View.layout (lines 180-185)
Layout(n, rect) ==
    LET S == LayoutRebuild(n)
        F1 == resize(frame, S.subviews, n, Size(rect.w, rect.h))
        F2 == reposition(F1, S.subviews, n, rect)
    IN  /\ subviews' = S.subviews
        /\ parent' = S.parent
        /\ index' = S.index
        /\ envInh' = S.envInh
        /\ frame' = IF S.err = NoErr THEN F2 ELSE frame
        /\ dirty' = IF S.err = NoErr THEN ClearDirty(dirty, n) ELSE dirty
        /\ op' = Op("layout", n, S.err, S.rebuilt, <<>>, <<rect>>)
        /\ UNCHANGED <<contents, cfgVars, ctlVars, btnVars, ncalls>>

\* The default event hooks (lines 244-269): no-ops.
Hooks == {"mousedown", "mousemotion", "mouseup", "click", "focus", "blur",
          "keydown", "keyup", "textinput"}

Event(hook) ==
    /\ op' = Op(hook, NoView, NoErr, <<>>, <<>>, <<>>)
    /\ UNCHANGED <<contents, treeVars, dirty, frame, cfgVars, ctlVars, envInh, btnVars, ncalls>>

\* ------------------------------------------------------------------ lookup
\* A path segment: an id string "<Class>-<index>", or an int.
SegId(cls, idx) == [isInt |-> FALSE, cls |-> cls, idx |-> idx]
SegInt(k) == [isInt |-> TRUE, cls |-> "int", idx |-> k]
IdSeg(n) == SegId(ClassName(n), index[n])
Found(m) == [raised |-> FALSE, view |-> m]
Raised == [raised |-> TRUE, view |-> NoView]

\* A lookup that raises when no subview has the id.
MissingRaises(n) == Raised

\* lines 87-89: the loop falls through and the method returns None.
Missing(n) == Found(NoView)

\* View.__getitem__ (lines 84-89)
getitem(n, vid) ==
    IF vid.isInt
    THEN IF vid.idx >= -Len(subviews[n]) /\ vid.idx < Len(subviews[n])
         THEN Found(subviews[n][IF vid.idx >= 0 THEN vid.idx + 1
                                ELSE Len(subviews[n]) + vid.idx + 1])
         ELSE Raised
    ELSE LET hits == {i \in 1..Len(subviews[n]) : IdSeg(subviews[n][i]) = vid}
         IN IF hits = {} THEN Missing(n) ELSE Found(subviews[n][FirstOf(hits)])

RECURSIVE ResolveLoop(_, _)
ResolveLoop(view, parts) ==
    IF parts = <<>> THEN Found(view)
    ELSE LET r == getitem(view, Head(parts)) IN
         IF r.raised THEN r
         ELSE IF r.view = NoView THEN Found(NoView)
         ELSE ResolveLoop(r.view, Tail(parts))

\* View.resolve (lines 216-224)
resolve(n, path) ==
    IF path = <<>> \/ path[1] # IdSeg(n) THEN Found(NoView)
    ELSE ResolveLoop(n, Tail(path))

\* View.id_path (lines 53-60)
RECURSIVE id_path(_)
id_path(n) ==
    IF parent[n] = NoView THEN <<IdSeg(n)>> ELSE Append(id_path(parent[n]), IdSeg(n))

Resolve(n, path) ==
    LET r == resolve(n, path) IN
        /\ op' = Op("resolve", n, IF r.raised THEN "raised" ELSE NoErr, <<>>,
                    IF r.view = NoView THEN <<>> ELSE <<r.view>>, path)
        /\ UNCHANGED <<contents, treeVars, dirty, frame, cfgVars, ctlVars, envInh, btnVars, ncalls>>

\* ---------------------------------------------------------------- hit test
Point(x, y) == [x |-> x, y |-> y]
Filter(attr, value) == [attr |-> attr, value |-> value]

\* getattr(self, attr, None), for the class attributes interactive and disabled
getattr(n, attr) == IF attr = "interactive" THEN interactive[n] ELSE FALSE

\* all(getattr(self, attr, None) == value for attr, value in filters.items())
Matches(n, filters) ==
    \A i \in 1..Len(filters) : getattr(n, filters[i].attr) = filters[i].value

\* A find that prefers the view itself to its subviews.
FindPickSelfFirst(n, sub, filters) ==
    IF Matches(n, filters) THEN n ELSE sub

\* lines 228-233: a match among the subviews wins; else the view itself.
FindPick(n, sub, filters) ==
    IF sub # NoView THEN sub ELSE IF Matches(n, filters) THEN n ELSE NoView

RECURSIVE find(_, _, _), FindLoop(_, _, _)
FindLoop(vs, pt, filters) ==
    IF vs = <<>> THEN NoView
    ELSE LET found == find(Head(vs), pt, filters) IN
         IF found # NoView THEN found ELSE FindLoop(Tail(vs), pt, filters)

\* View.find (lines 226-234)
find(n, pt, filters) ==
    IF PtIn(pt, frame[n])
    THEN FindPick(n, FindLoop(subviews[n], pt, filters), filters)
    ELSE NoView

\* A find_all that lists a view after its subviews.
FindAllJoinPostOrder(self, below) == below \o self

\* lines 237-242: the view itself first, then what its subviews found.
FindAllJoin(self, below) == self \o below

RECURSIVE find_all(_, _), FindAllLoop(_, _)
FindAllLoop(vs, filters) ==
    IF vs = <<>> THEN <<>>
    ELSE find_all(Head(vs), filters) \o FindAllLoop(Tail(vs), filters)

\* View.find_all (lines 236-242)
find_all(n, filters) ==
    FindAllJoin(IF Matches(n, filters) THEN <<n>> ELSE <<>>,
                FindAllLoop(subviews[n], filters))

Find(n, pt, filters) ==
    LET r == find(n, pt, filters) IN
        /\ op' = Op("find", n, NoErr, <<>>, IF r = NoView THEN <<>> ELSE <<r>>,
                    [pt |-> pt, filters |-> filters])
        /\ UNCHANGED <<contents, treeVars, dirty, frame, cfgVars, ctlVars, envInh, btnVars, ncalls>>

FindAll(n, filters) ==
    /\ op' = Op("find_all", n, NoErr, <<>>, find_all(n, filters),
                [pt |-> Point(0, 0), filters |-> filters])
    /\ UNCHANGED <<contents, treeVars, dirty, frame, cfgVars, ctlVars, envInh, btnVars, ncalls>>

\* ------------------------------------------------------------------ queries
\* View.render (lines 187-191): the views drawn, in drawing order.
RECURSIVE render(_), RenderLoop(_)
RenderLoop(vs) == IF vs = <<>> THEN <<>> ELSE render(Head(vs)) \o RenderLoop(Tail(vs))
render(n) == <<n>> \o RenderLoop(subviews[n])

\* A render that keeps the rect it drew into as the view's frame.
RenderKeepingInner(n) ==
    /\ frame' = [frame EXCEPT ![n] = RectSub(RectSub(frame[n], padding[n]), border[n])]
    /\ op' = Op("render", n, NoErr, <<>>, render(n), <<>>)
    /\ UNCHANGED <<contents, treeVars, dirty, cfgVars, ctlVars, envInh, btnVars, ncalls>>

Render(n) ==
    /\ op' = Op("render", n, NoErr, <<>>, render(n), <<>>)
    /\ UNCHANGED <<contents, treeVars, dirty, frame, cfgVars, ctlVars, envInh, btnVars, ncalls>>

\* View.minimum_size (lines 114-124)
MinimumSize(n) ==
    /\ op' = Op("minimum_size", n, NoErr, <<>>, <<minimum_size(subviews, n)>>, <<>>)
    /\ UNCHANGED <<contents, treeVars, dirty, frame, cfgVars, ctlVars, envInh, btnVars, ncalls>>

\* View.content_size (lines 126-131)
ContentSize(n, available) ==
    /\ op' = Op("content_size", n, NoErr, <<>>, <<content_size(n, available)>>,
                <<available>>)
    /\ UNCHANGED <<contents, treeVars, dirty, frame, cfgVars, ctlVars, envInh, btnVars, ncalls>>

\* ------------------------------------------------------------------- button
\* A detached task that was awaited to its end before click returned.
DispatchAwaited(T) == Append(T, "done")

\* line 48: asyncio.create_task(self.action()): scheduled, not yet started.
Dispatch(T) == Append(T, "pending")

\* Button.click (lines 45-50)
Click ==
    /\ \/ action = "none" /\ UNCHANGED <<tasks, syncRuns>>
       \/ /\ action = "async"
          /\ Len(tasks) < MaxTasks
          /\ tasks' = Dispatch(tasks)
          /\ UNCHANGED syncRuns
       \/ /\ action = "sync"
          /\ syncRuns < MaxTasks
          /\ syncRuns' = syncRuns + 1
          /\ UNCHANGED tasks
    /\ op' = Op("Button.click", NoView, NoErr, <<>>, <<>>, <<>>)
    /\ UNCHANGED <<contents, treeVars, dirty, frame, cfgVars, ctlVars, envInh, action, ncalls>>

\* The event loop runs a detached task up to its next suspension point.
TaskStep(i) ==
    /\ tasks[i] # "done"
    /\ tasks' = [tasks EXCEPT ![i] = IF @ = "pending" THEN "running" ELSE "done"]
    /\ op' = Op("task", NoView, NoErr, <<>>, <<>>, <<>>)
    /\ UNCHANGED <<contents, treeVars, dirty, frame, cfgVars, ctlVars, envInh, action, syncRuns,
                   ncalls>>

\* ------------------------------------------------------------------- slider
\* The view whose state the controls are bound to, and the Slider itself.
TheHost == 1
TheSlider == 2

\* pyui.utils.clamp
clamp(v, lo, hi) == IF v < lo THEN lo ELSE IF v > hi THEN hi ELSE v

\* int(num / den) for den > 0: Python's int() truncates toward zero.
int(num, den) == IF num >= 0 THEN num \div den ELSE -((-num) \div den)

\* Slider.span (lines 62-64)
span == maximum - minimum + 1

\* A _set that does not clamp.
_setUnclamped(num, den) ==
    [value |-> int(num, den), wrote |-> current # int(num, den)]

\* Slider._set (lines 79-82), for the value num / den
_set(num, den) ==
    LET clamped == clamp(int(num, den), minimum, maximum) IN
        [value |-> clamped, wrote |-> current # clamped]

\* Binding.value = v: the host view's state_changed runs when the slot is written.
BindingWrite(wrote) ==
    LET S == IF wrote THEN StateChangedRebuild(TheHost) ELSE Start IN
        /\ subviews' = S.subviews
        /\ parent' = S.parent
        /\ index' = S.index
        /\ envInh' = S.envInh
        /\ dirty' = IF wrote /\ S.err = NoErr THEN MarkDirty(dirty, S.parent, TheHost)
                    ELSE dirty

SliderSet(name, input, num, den) ==
    LET r == _set(num, den) IN
        /\ current' = r.value
        /\ BindingWrite(r.wrote)
        /\ op' = Op(name, TheSlider, NoErr, <<>>, <<current, r.value>>,
                    [wrote |-> r.wrote, input |-> input])
        /\ UNCHANGED <<contents, frame, cfgVars, btnVars, ncalls, minimum, maximum,
                       text, _start, _end>>

\* clamp(pos / width, 0.0, 1.0) as a fraction with a positive denominator
Pct(pos, width) ==
    LET num == IF width > 0 THEN pos ELSE -pos
        den == IF width > 0 THEN width ELSE -width
    IN IF num <= 0 THEN [num |-> 0, den |-> 1]
       ELSE IF num >= den THEN [num |-> 1, den |-> 1]
       ELSE [num |-> num, den |-> den]

\* Slider.mousemotion (lines 84-88); line 87 divides by inner.width.
SliderMouse(name, pt, envPadding, envBorder) ==
    LET inner == RectSub(RectSub(frame[TheSlider], envPadding), envBorder)
        pos == pt.x - inner.x
        pct == Pct(pos, inner.w)
    IN IF inner.w = 0
       THEN /\ op' = Op(name, TheSlider, "ZeroDivisionError", <<>>, <<current, current>>,
                        [wrote |-> FALSE, input |-> <<pt>>])
            /\ UNCHANGED <<contents, treeVars, dirty, frame, cfgVars, ctlVars, envInh,
                           btnVars, ncalls>>
       ELSE SliderSet(name, <<pt>>, minimum * pct.den + pct.num * span, pct.den)

Slider_mousemotion(pt, envPadding, envBorder) ==
    SliderMouse("Slider.mousemotion", pt, envPadding, envBorder)

\* Slider.click (lines 90-91)
Slider_click(pt, envPadding, envBorder) ==
    SliderMouse("Slider.click", pt, envPadding, envBorder)

\* Slider.keydown (lines 93-98)
Slider_keydown(key, shift) ==
    LET amt == IF shift THEN span \div 10 ELSE 1 IN
        IF key = "LEFT"
        THEN SliderSet("Slider.keydown", <<key, shift>>, current - amt, 1)
        ELSE IF key = "RIGHT"
        THEN SliderSet("Slider.keydown", <<key, shift>>, current + amt, 1)
        ELSE /\ op' = Op("Slider.keydown", TheSlider, NoErr, <<>>, <<current, current>>,
                         [wrote |-> FALSE, input |-> <<key, shift>>])
             /\ UNCHANGED <<contents, treeVars, dirty, frame, cfgVars, ctlVars, envInh,
                            btnVars, ncalls>>

\* --------------------------------------------------------------- text field
TheField == 2

\* Python slices text[:k] and text[k:] for k >= 0
Upto(t, k) == SubSeq(t, 1, IF k < Len(t) THEN k ELSE Len(t))
From(t, k) == SubSeq(t, k + 1, Len(t))

\* TextField.selection (lines 115-119)
selection ==
    IF _start = None \/ _end = None THEN [none |-> TRUE, indices |-> {}]
    ELSE [none |-> FALSE,
          indices |-> (IF _start < _end THEN _start ELSE _end) ..
                      (IF _start > _end THEN _start ELSE _end)]

TextOp(name, input) == Op(name, TheField, NoErr, <<>>, <<>>, input)

\* TextField.textinput (lines 164-165)
TextField_textinput(t) ==
    /\ Len(text) + Len(t) <= MaxText
    /\ text' = text \o t
    /\ BindingWrite(TRUE)
    /\ op' = TextOp("TextField.textinput", <<t>>)
    /\ UNCHANGED <<contents, frame, cfgVars, btnVars, ncalls, minimum, maximum, current,
                   _start, _end>>

\* TextField.keydown (lines 151-162)
TextField_keydown(key) ==
    /\ \/ /\ key = "BACKSPACE" /\ _start # None /\ _end # None
          /\ LET s == IF _start < _end THEN _start ELSE _end
                 e == IF _start > _end THEN _start ELSE _end
             IN text' = Upto(text, s) \o From(text, e)
          /\ _start' = None /\ _end' = None
          /\ BindingWrite(TRUE)
       \/ /\ key = "BACKSPACE" /\ (_start = None \/ _end = None)
          /\ text' = Upto(text, Len(text) - 1)
          /\ UNCHANGED <<_start, _end>>
          /\ BindingWrite(TRUE)
       \/ /\ key = "RETURN" /\ Len(text) < MaxText
          /\ text' = Append(text, "\n")
          /\ UNCHANGED <<_start, _end>>
          /\ BindingWrite(TRUE)
       \/ /\ key = "OTHER"
          /\ UNCHANGED <<text, _start, _end, treeVars, dirty, envInh>>
    /\ op' = TextOp("TextField.keydown", <<key>>)
    /\ UNCHANGED <<contents, frame, cfgVars, btnVars, ncalls, minimum, maximum, current>>

\* TextField.mousedown (lines 167-171); idx is what the font's find returned.
TextField_mousedown(idx) ==
    /\ _start' = idx
    /\ _end' = None
    /\ op' = TextOp("TextField.mousedown", <<idx>>)
    /\ UNCHANGED <<contents, treeVars, dirty, frame, cfgVars, envInh, btnVars, ncalls,
                   minimum, maximum, current, text>>

\* TextField.mousemotion (lines 173-177)
TextField_mousemotion(idx) ==
    /\ _end' = IF idx # None THEN idx ELSE _end
    /\ op' = TextOp("TextField.mousemotion", <<idx>>)
    /\ UNCHANGED <<contents, treeVars, dirty, frame, cfgVars, envInh, btnVars, ncalls,
                   minimum, maximum, current, text, _start>>

\* ------------------------------------------------------------ configurations
ZeroInsets == Insets(0, 0, 0, 0)
ZeroRect == Rect(0, 0, 0, 0)
Viewports == {Rect(0, 0, 200, 100), Rect(5, 5, 30, 10)}

\* The state after construction (View.__init__, lines 36-46, and the class
\* attributes of lines 24-34), except the fields the caller passes in.
Constructed ==
    /\ subviews = [n \in Nodes |-> <<>>]
    /\ parent = [n \in Nodes |-> NoView]
    /\ index = [n \in Nodes |-> 0]
    /\ dirty = [n \in Nodes |-> FALSE]
    /\ frame = [n \in Nodes |-> ZeroRect]
    /\ envInh = [e \in EnvIds |-> [f \in Fields |-> EnvDefault]]
    /\ tasks = <<>>
    /\ syncRuns = 0
    /\ ncalls = 0
    /\ _start = None
    /\ _end = None
    /\ op = Op("init", NoView, NoErr, <<>>, <<>>, <<>>)

\* Slider(value, minimum=0, maximum=100) and TextField(text) over fresh bindings.
DefaultControls ==
    /\ minimum = 0
    /\ maximum = 100
    /\ current = 0
    /\ text = <<>>

PlainConfig ==
    /\ padding = [n \in Nodes |-> ZeroInsets]
    /\ border = [n \in Nodes |-> ZeroInsets]
    /\ kind = [n \in Nodes |-> "View"]
    /\ interactive = [n \in Nodes |-> FALSE]
    /\ ownEnv = [n \in Nodes |-> FALSE]
    /\ envOwn = [e \in EnvIds |-> [f \in Fields |-> Unset]]
    /\ action = "none"
    /\ screen = {ZeroRect}

\* View(): no declared children yet; they are given by __call__.
NoContents == contents = [n \in Nodes |-> <<>>]

\* ----------------------------------------------------------- reconciliation
Init == Constructed /\ DefaultControls /\ PlainConfig /\ NoContents

Next ==
    \/ \E n \in Nodes : \E c \in DeclChoices(n) : Call(n, c)
    \/ \E n \in Nodes : Rebuild(n)
    \/ \E n \in Nodes : StateChanged(n)
    \/ \E n \in Nodes : \E r \in screen : Layout(n, r)
    \/ \E h \in Hooks : Event(h)

Spec == Init /\ [][Next]_vars
\* Declarations that yield Views only, each at most once.
TreeDecls(n) ==
    LET K == (n + 1)..NumNodes IN
        {<<>>} \cup {<<Vw(m)>> : m \in K}
        \cup {<<Vw(q[1]), Vw(q[2])>> : q \in {p \in K \X K : p[1] < p[2]}}

\* View(*contents): the declared children given to the constructors.
TreeContents ==
    contents \in {f \in [Nodes -> UNION {TreeDecls(n) : n \in Nodes}] :
                    \A n \in Nodes : f[n] \in TreeDecls(n)}

\* -------------------------------------------------------------- environment
UniformPad == Insets(10, 10, 10, 10)
OddPad == Insets(1, 2, 0, 0)
EnvOverrides ==
    {[f \in Fields |-> Unset], [f \in Fields |-> IF f = "font" THEN 2 ELSE Unset],
     [f \in Fields |-> IF f = "scale" THEN 2 ELSE Unset]}

EnvConfig ==
    /\ padding = [n \in Nodes |-> ZeroInsets]
    /\ border = [n \in Nodes |-> ZeroInsets]
    /\ kind = [n \in Nodes |-> "View"]
    /\ interactive = [n \in Nodes |-> FALSE]
    /\ ownEnv \in [Nodes -> BOOLEAN]
    /\ envOwn \in {f \in [EnvIds -> EnvOverrides] :
                     \A e \in EnvIds : (e = SharedEnv \/ ~ownEnv[e]) =>
                                          f[e] = [g \in Fields |-> Unset]}
    /\ action = "none"
    /\ screen = {ZeroRect}

InitEnv == Constructed /\ DefaultControls /\ EnvConfig /\ TreeContents

NextEnv ==
    \/ \E n \in Nodes : Rebuild(n)
    \/ \E n \in Nodes : StateChanged(n)

SpecEnv == InitEnv /\ [][NextEnv]_vars

\* ------------------------------------------------------------------- layout
LayoutConfig ==
    /\ padding \in {f \in [Nodes -> {ZeroInsets, UniformPad, OddPad}] :
                      \A n \in Nodes : n > 2 => f[n] # UniformPad}
    /\ border \in {[n \in Nodes |-> ZeroInsets], [n \in Nodes |-> Insets(1, 1, 1, 1)]}
    /\ kind \in {f \in [Nodes -> {"View", "Leaf", "Slider"}] :
                   \A n \in Nodes : n < NumNodes => f[n] = "View"}
    /\ interactive = [n \in Nodes |-> FALSE]
    /\ ownEnv = [n \in Nodes |-> FALSE]
    /\ envOwn = [e \in EnvIds |-> [f \in Fields |-> Unset]]
    /\ action = "none"
    /\ screen = Viewports

InitLayout == Constructed /\ DefaultControls /\ LayoutConfig /\ TreeContents

\* The frame driver lays out the root view, view 1.
NextLayout ==
    \/ \E r \in screen : Layout(1, r)

SpecLayout == InitLayout /\ [][NextLayout]_vars

\* ----------------------------------------------------------------- hit test
Points == {Point(100, 50), Point(85, 35), Point(75, 25), Point(0, 0)}
Filters == {<<>>, <<Filter("interactive", TRUE)>>}

FindConfig ==
    /\ padding = [n \in Nodes |-> UniformPad]
    /\ border = [n \in Nodes |-> ZeroInsets]
    /\ kind = [n \in Nodes |-> "View"]
    /\ interactive \in [Nodes -> BOOLEAN]
    /\ ownEnv = [n \in Nodes |-> FALSE]
    /\ envOwn = [e \in EnvIds |-> [f \in Fields |-> Unset]]
    /\ action = "none"
    /\ screen = {Rect(0, 0, 200, 100)}

InitFind == Constructed /\ DefaultControls /\ FindConfig /\ TreeContents

NextFind ==
    \/ \E r \in screen : Layout(1, r)
    \/ \E n \in Nodes : \E pt \in Points : \E f \in Filters : Find(n, pt, f)
    \/ \E n \in Nodes : \E f \in Filters : FindAll(n, f)

SpecFind == InitFind /\ [][NextFind]_vars

\* ------------------------------------------------------------------- lookup
MaxPath == 3
Segs == {SegId("View", 0), SegId("View", 1)}
Paths ==
    UNION {[1..k -> Segs] : k \in 0..MaxPath}
    \cup {<<SegId("View", 0), SegInt(0)>>, <<SegId("View", 0), SegInt(2)>>}

InitResolve == Constructed /\ DefaultControls /\ PlainConfig /\ TreeContents

\* The frame driver reconciles the root view, view 1.
NextResolve ==
    \/ Rebuild(1)
    \/ \E n \in Nodes : \E path \in Paths : Resolve(n, path)

SpecResolve == InitResolve /\ [][NextResolve]_vars

\* ------------------------------------------------------------------- button
ButtonConfig ==
    /\ padding = [n \in Nodes |-> ZeroInsets]
    /\ border = [n \in Nodes |-> ZeroInsets]
    /\ kind = [n \in Nodes |-> "View"]
    /\ interactive = [n \in Nodes |-> FALSE]
    /\ ownEnv = [n \in Nodes |-> FALSE]
    /\ envOwn = [e \in EnvIds |-> [f \in Fields |-> Unset]]
    /\ action \in {"none", "sync", "async"}
    /\ screen = {ZeroRect}

InitButton == Constructed /\ DefaultControls /\ ButtonConfig /\ NoContents

NextButton ==
    \/ Click
    \/ \E i \in 1..Len(tasks) : TaskStep(i)
    \/ \E n \in Nodes : StateChanged(n)
    \/ \E n \in Nodes : \E r \in screen : Layout(n, r)
    \/ \E h \in Hooks : Event(h)

SpecButton == InitButton /\ [][NextButton]_vars

\* ------------------------------------------------------------ orchestration
OrchConfig ==
    /\ padding = [n \in Nodes |-> UniformPad]
    /\ border = [n \in Nodes |-> ZeroInsets]
    /\ kind = [n \in Nodes |-> "View"]
    /\ interactive = [n \in Nodes |-> FALSE]
    /\ ownEnv = [n \in Nodes |-> FALSE]
    /\ envOwn = [e \in EnvIds |-> [f \in Fields |-> Unset]]
    /\ action = "none"
    /\ screen = {Rect(0, 0, 200, 100)}

\* The root is constructed without contents and declared later by __call__.
InitOrch == Constructed /\ DefaultControls /\ OrchConfig /\ TreeContents /\ contents[1] = <<>>

NextOrch ==
    \/ \E c \in DeclChoices(1) : Call(1, c)
    \/ \E n \in Nodes : \E r \in screen : Layout(n, r)

SpecOrch == InitOrch /\ [][NextOrch]_vars

\* ---------------------------------------------------------------- ownership
ProbePoint == Point(100, 50)
ProbePaths == {<<SegId("View", 0)>>, <<SegId("View", 0), SegId("View", 0)>>}

InitOwn == Constructed /\ DefaultControls /\ OrchConfig /\ TreeContents

\* State changes arrive at the root view and at view 2.
NextOwn ==
    \/ Rebuild(1)
    \/ \E n \in {1, 2} : StateChanged(n)
    \/ \E r \in screen : Layout(1, r)
    \/ \E n \in Nodes : Find(n, ProbePoint, <<>>)
    \/ \E n \in Nodes : FindAll(n, <<>>)
    \/ \E n \in Nodes : \E path \in ProbePaths : Resolve(n, path)
    \/ \E n \in Nodes : Render(n)
    \/ \E n \in Nodes : MinimumSize(n)
    \/ \E n \in Nodes : \E r \in screen : ContentSize(n, Size(r.w, r.h))
    \/ \E h \in Hooks : Event(h)

SpecOwn == InitOwn /\ [][NextOwn]_vars

\* ------------------------------------------------------------------- slider
SliderRanges == {<<0, 20>>, <<-5, 5>>, <<3, 3>>}
SliderPoints == {Point(-10, 0), Point(0, 0), Point(12, 3), Point(37, 10),
                 Point(100, 50), Point(250, 0)}
SliderKeys == {"LEFT", "RIGHT", "OTHER"}
EnvInsets == {ZeroInsets, UniformPad}

SliderConfig ==
    /\ padding = [n \in Nodes |-> ZeroInsets]
    /\ border = [n \in Nodes |-> ZeroInsets]
    /\ kind = [n \in Nodes |-> IF n = TheSlider THEN "Slider" ELSE "View"]
    /\ interactive = [n \in Nodes |-> n = TheSlider]
    /\ ownEnv = [n \in Nodes |-> FALSE]
    /\ envOwn = [e \in EnvIds |-> [f \in Fields |-> Unset]]
    /\ action = "none"
    /\ screen = Viewports
    /\ contents = [n \in Nodes |-> IF n = TheHost THEN <<Vw(TheSlider)>> ELSE <<>>]

\* Slider(value, minimum, maximum) over a binding whose value is in range.
SliderControls ==
    /\ \E r \in SliderRanges : minimum = r[1] /\ maximum = r[2]
    /\ current \in {minimum, maximum}
    /\ text = <<>>

InitSlider == Constructed /\ SliderConfig /\ SliderControls

NextSlider ==
    \/ \E r \in screen : Layout(TheHost, r)
    \/ \E pt \in SliderPoints : \E e \in EnvInsets : Slider_mousemotion(pt, e, ZeroInsets)
    \/ \E pt \in SliderPoints : \E e \in EnvInsets : Slider_click(pt, e, ZeroInsets)
    \/ \E key \in SliderKeys : \E shift \in BOOLEAN : Slider_keydown(key, shift)

SpecSlider == InitSlider /\ [][NextSlider]_vars

\* --------------------------------------------------------------- text field
Typed == {<<"a">>, <<"b">>}
TextKeys == {"BACKSPACE", "RETURN", "OTHER"}
\* What the font's find can return for a point: a character's index, or None.
FoundAt == {None} \cup {i \in 0..(MaxText - 1) : i < Len(text)}

TextConfig ==
    /\ padding = [n \in Nodes |-> ZeroInsets]
    /\ border = [n \in Nodes |-> ZeroInsets]
    /\ kind = [n \in Nodes |-> IF n = TheField THEN "TextField" ELSE "View"]
    /\ interactive = [n \in Nodes |-> n = TheField]
    /\ ownEnv = [n \in Nodes |-> FALSE]
    /\ envOwn = [e \in EnvIds |-> [f \in Fields |-> Unset]]
    /\ action = "none"
    /\ screen = {ZeroRect}
    /\ contents = [n \in Nodes |-> IF n = TheHost THEN <<Vw(TheField)>> ELSE <<>>]

InitText == Constructed /\ DefaultControls /\ TextConfig

NextText ==
    \/ \E t \in Typed : TextField_textinput(t)
    \/ \E key \in TextKeys : TextField_keydown(key)
    \/ \E idx \in FoundAt : TextField_mousedown(idx)
    \/ \E idx \in FoundAt : TextField_mousemotion(idx)

SpecText == InitText /\ [][NextText]_vars

\* ------------------------------------------------------- derived structure
\* The views reachable from n through subviews (n included).
RECURSIVE Reach(_, _)
Reach(SV, n) == {n} \cup UNION {Reach(SV, SV[n][i]) : i \in 1..Len(SV[n])}

\* The views declared under n (n included).
RECURSIVE DeclSubtree(_)
DeclSubtree(n) ==
    LET flat == content(contents, n) IN
        {n} \cup UNION {DeclSubtree(flat[i].view) : i \in {j \in 1..Len(flat) : flat[j].isView}}

\* n's declared subtree yields only Views.
RECURSIVE Clean(_)
Clean(n) ==
    LET flat == content(contents, n) IN
        \A i \in 1..Len(flat) : flat[i].isView /\ Clean(flat[i].view)

RECURSIVE Ancestors(_, _)
Ancestors(P, n) == IF P[n] = NoView THEN {} ELSE {P[n]} \cup Ancestors(P, P[n])

Occurrences(seq, x) == Cardinality({i \in 1..Len(seq) : seq[i] = x})
ViewsOf(flat) == [i \in 1..Len(flat) |-> flat[i].view]
BadAt(flat) == {i \in 1..Len(flat) : ~flat[i].isView}

\* -------------------------------------------------------------------- claims

\* C2: when rebuild(N) fails on a value that is not a View, every view that was
\* reachable from N before the call keeps its subviews, parent and index.
C2_NoPartialInstall ==
    [][(op'.name = "rebuild" /\ op'.err # NoErr) =>
          \A m \in Reach(subviews, op'.node) :
              /\ subviews'[m] = subviews[m]
              /\ parent'[m] = parent[m]
              /\ index'[m] = index[m]]_vars

\* C3: rebuild(N) fails, naming the type of the offending value, whenever N's
\* flattened content yields a value that is not a View, and then N.subviews is
\* the list it was; when rebuild(N) succeeds N.subviews is the complete new
\* list: N.subviews is never a proper prefix of the new list.
C3_AtomicReplace ==
    [][op'.name = "rebuild" =>
          LET N == op'.node
              flat == content(contents, N)
              bad == BadAt(flat)
          IN /\ bad # {} => op'.err # NoErr
             /\ (bad # {} /\ \A j \in 1..(FirstOf(bad) - 1) : Clean(flat[j].view))
                   => op'.err = flat[FirstOf(bad)].type
             /\ op'.err # NoErr => subviews'[N] = subviews[N]
             /\ op'.err = NoErr => subviews'[N] = ViewsOf(flat)]_vars

\* A failed rebuild of a view that had subviews and whose new content starts
\* with Views: the old list is still in place.
C3_Witness ==
    /\ op.name = "rebuild" /\ op.err = "str"
    /\ subviews[op.node] # <<>>
    /\ subviews[op.node] # <<ViewsOf(content(contents, op.node))[1]>>

\* C4: every view p reachable from a root, and every position i, satisfy
\* p.subviews[i].parent is p and p.subviews[i].index == i.
C4_ParentIndexConsistent ==
    \A r \in {n \in Nodes : parent[n] = NoView} :
        \A p \in Reach(subviews, r) :
            \A i \in 1..Len(subviews[p]) :
                /\ parent[subviews[p][i]] = p
                /\ index[subviews[p][i]] = i - 1

\* C5: a state_changed(name, value) on n that returns has reconciled n once,
\* from n downwards (no ancestor of n, and no view outside n's declared
\* subtree, is rebuilt), and the root of n's tree is dirty; a dirty flag stays
\* set until layout is called on that view, and layout clears it.
C5_InvalidationRoundTrip ==
    /\ [](op.name = "state_changed" /\ op.err = NoErr =>
            /\ Head(op.rebuilt) = op.node
            /\ Occurrences(op.rebuilt, op.node) = 1
            /\ \A i \in 1..Len(op.rebuilt) : op.rebuilt[i] \in DeclSubtree(op.node)
            /\ \A a \in Ancestors(parent, op.node) : Occurrences(op.rebuilt, a) = 0
            /\ dirty[RootOf(parent, op.node)])
    /\ [][\A r \in Nodes :
            /\ (dirty[r] /\ ~dirty'[r]) => (op'.name = "layout" /\ op'.node = r)
            /\ (op'.name = "layout" /\ op'.err = NoErr /\ op'.node = r) => ~dirty'[r]]_vars

\* A state_changed on a view below the root left the root dirty, and an event
\* hook ran since without clearing it.
C5_Witness ==
    /\ op.name \in Hooks
    /\ \E n \in Nodes : parent[n] # NoView /\ dirty[RootOf(parent, n)] /\ ~dirty[n]
\* The views under n in the order the tree lists them (n first).
RECURSIVE PreOrder(_), PreOrderAll(_)
PreOrderAll(vs) == IF vs = <<>> THEN <<>> ELSE PreOrder(Head(vs)) \o PreOrderAll(Tail(vs))
PreOrder(n) == <<n>> \o PreOrderAll(subviews[n])

\* No view occurs twice under n.
IsTree(n) == Len(PreOrder(n)) = Cardinality(Reach(subviews, n))

\* The views under n that a point can reach: every frame on the way holds it.
RECURSIVE Visible(_, _)
Visible(n, pt) ==
    IF PtIn(pt, frame[n])
    THEN {n} \cup UNION {Visible(subviews[n][i], pt) : i \in 1..Len(subviews[n])}
    ELSE {}

Elems(seq) == {seq[i] : i \in 1..Len(seq)}
Pos(seq, x) == FirstOf({i \in 1..Len(seq) : seq[i] = x})

\* C1: for sibling subviews A (earlier) and B (later) of a laid-out parent, and
\* a point inside the parent's, A's and B's frames, both matching the filters,
\* find(point, filters) on the parent returns B or a descendant of B.
C1_LaterSiblingWins ==
    op.name = "find" =>
        LET P == op.node
            pt == op.arg.pt
            fl == op.arg.filters
        IN \A i \in 1..Len(subviews[P]) : \A j \in 1..Len(subviews[P]) :
              LET A == subviews[P][i]
                  Bv == subviews[P][j]
              IN (/\ i < j
                  /\ Reach(subviews, A) \cap Reach(subviews, Bv) = {}
                  /\ PtIn(pt, frame[P]) /\ PtIn(pt, frame[A]) /\ PtIn(pt, frame[Bv])
                  /\ Matches(A, fl) /\ Matches(Bv, fl))
                 => (op.res # <<>> /\ op.res[1] \in Reach(subviews, Bv))

\* The value view n is meant to read for field f: its own override, else what
\* its parent reads, else the default.
OwnOverride(n, f) == IF ownEnv[n] THEN envOwn[n][f] ELSE Unset
RECURSIVE Cascade(_, _)
Cascade(n, f) ==
    IF OwnOverride(n, f) # Unset THEN OwnOverride(n, f)
    ELSE IF parent[n] = NoView THEN EnvDefault
    ELSE Cascade(parent[n], f)

\* C6: after a reconciliation of a root, every view under it reads, for each
\* Environment field, its own override if it has one and else what its parent
\* reads: an override is seen in the overriding view's subtree and nowhere else.
C6_EnvCascade ==
    (/\ op.name = "rebuild" /\ op.err = NoErr
     /\ parent[op.node] = NoView
     /\ IsTree(op.node))
    => \A m \in Reach(subviews, op.node) : \A f \in Fields :
          ReadEnv(envInh, envOf(m), f) = Cascade(m, f)

\* C7: after layout(rect) in a viewport at least as large as the root's
\* minimum size plus insets, every view's frame is at least its minimum_size()
\* plus its own padding and border, on each axis.
C7_MinimumSizeHonoured ==
    (/\ op.name = "layout" /\ op.err = NoErr
     /\ LET m == minimum_size(subviews, op.node) IN
          /\ op.arg[1].w >= m.w + InsetsWidth(padding[op.node]) + InsetsWidth(border[op.node])
          /\ op.arg[1].h >= m.h + InsetsHeight(padding[op.node]) + InsetsHeight(border[op.node]))
    => \A v \in Reach(subviews, op.node) :
          LET m == minimum_size(subviews, v) IN
            /\ frame[v].w >= m.w + InsetsWidth(padding[v]) + InsetsWidth(border[v])
            /\ frame[v].h >= m.h + InsetsHeight(padding[v]) + InsetsHeight(border[v])

\* C8: find(point, filters) returns a matching view the point reaches (every
\* frame from the receiver down to it holds the point) under which no further
\* matching view is reached, so the receiver itself only when no subview's
\* subtree has a match, and None exactly when the point reaches no matching
\* view; find_all(filters) returns exactly the matching views, and on a tree
\* each once, an ancestor before its descendants and an earlier sibling's
\* subtree before a later sibling's.
C8_TraversalOrders ==
    /\ op.name = "find" =>
          LET hits == {m \in Visible(op.node, op.arg.pt) : Matches(m, op.arg.filters)} IN
            /\ op.res = <<>> <=> hits = {}
            /\ op.res # <<>> =>
                  /\ op.res[1] \in hits
                  /\ \A d \in Visible(op.res[1], op.arg.pt) \ {op.res[1]} :
                        ~Matches(d, op.arg.filters)
    /\ op.name = "find_all" =>
          LET L == op.res
              fl == op.arg.filters
          IN /\ Elems(L) = {m \in Reach(subviews, op.node) : Matches(m, fl)}
             /\ IsTree(op.node) =>
                  /\ Cardinality(Elems(L)) = Len(L)
                  /\ \A i \in 1..Len(L) : \A j \in 1..Len(L) :
                        (L[j] \in Reach(subviews, L[i]) /\ L[j] # L[i]) => i < j
                  /\ \A p \in Reach(subviews, op.node) :
                       \A a \in 1..Len(subviews[p]) : \A b \in 1..Len(subviews[p]) :
                          a < b =>
                            \A x \in Reach(subviews, subviews[p][a]) \cap Elems(L) :
                               \A y \in Reach(subviews, subviews[p][b]) \cap Elems(L) :
                                  Pos(L, x) < Pos(L, y)

\* A find on a three-level tree with a match at every level, the point inside
\* all three frames: the deepest view is returned.
C8_Witness ==
    /\ op.name = "find" /\ op.arg.filters # <<>>
    /\ \E a \in Nodes : \E b \in Nodes :
          /\ a \in Elems(subviews[op.node]) /\ b \in Elems(subviews[a])
          /\ \A m \in {op.node, a, b} :
                Matches(m, op.arg.filters) /\ PtIn(op.arg.pt, frame[m])
          /\ op.res = <<b>>

\* C9: Button.click with a coroutine-function action schedules one detached
\* task, not yet started, and runs nothing; with a plain callable it runs the
\* action to its end; with no action it changes nothing.
C9_ClickDispatch ==
    [][op'.name = "Button.click" =>
          /\ action = "async" => (tasks' = Append(tasks, "pending") /\ syncRuns' = syncRuns)
          /\ action = "sync" => (tasks' = tasks /\ syncRuns' = syncRuns + 1)
          /\ action = "none" => (tasks' = tasks /\ syncRuns' = syncRuns)
          /\ UNCHANGED <<treeVars, dirty, frame>>]_vars

\* A layout pass ran while a detached action had not finished.
C9_Witness ==
    /\ action = "async" /\ op.name = "layout"
    /\ \E i \in 1..Len(tasks) : tasks[i] # "done"

\* The views the first k segments of a path lead to from n, by any subviews
\* with those ids.
RECURSIVE Level(_, _, _)
Level(n, path, k) ==
    IF k = 0 \/ k > Len(path) THEN {}
    ELSE IF k = 1 THEN (IF path[1] = IdSeg(n) THEN {n} ELSE {})
    ELSE {c \in Nodes : \E p \in Level(n, path, k - 1) :
              c \in Elems(subviews[p]) /\ IdSeg(c) = path[k]}

\* C10: resolve(id_path) with a path of id strings never raises; it returns
\* None for the empty path, for a first id that is not the receiver's, and when
\* some segment names no subview; a view it returns is one the path leads to.
C10_ResolveNeverRaises ==
    (op.name = "resolve" /\ \A i \in 1..Len(op.arg) : ~op.arg[i].isInt) =>
        /\ op.err = NoErr
        /\ Level(op.node, op.arg, Len(op.arg)) = {} => op.res = <<>>
        /\ op.res # <<>> => op.res[1] \in Level(op.node, op.arg, Len(op.arg))
        /\ (Len(op.arg) = 1 /\ op.arg[1] = IdSeg(op.node)) => op.res = <<op.node>>

\* A three-segment path whose first two ids resolve and whose third names no
\* subview: None, without an error.
C10_Witness ==
    /\ op.name = "resolve" /\ Len(op.arg) = 3
    /\ \A i \in 1..3 : ~op.arg[i].isInt
    /\ Level(op.node, op.arg, 2) # {}
    /\ Level(op.node, op.arg, 3) = {}
    /\ op.res = <<>> /\ op.err = NoErr

\* The largest member of a non-empty set of integers.
SetMax(S) == CHOOSE x \in S : \A y \in S : y <= x
Floor0(x) == IF x < 0 THEN 0 ELSE x
PadBorderW(n) == InsetsWidth(padding[n]) + InsetsWidth(border[n])
PadBorderH(n) == InsetsHeight(padding[n]) + InsetsHeight(border[n])

\* The size offered to view n when the view `top` is resized with `avail`: what
\* is left of it after the insets of every view from top down to n's parent.
RECURSIVE Offered(_, _, _)
Offered(n, top, avail) ==
    IF n = top THEN avail
    ELSE LET a == Offered(parent[n], top, avail) IN
           Size(Floor0(a.w - PadBorderW(parent[n])), Floor0(a.h - PadBorderH(parent[n])))

InsideFor(n, top, avail) ==
    LET a == Offered(n, top, avail) IN
        Size(Floor0(a.w - PadBorderW(n)), Floor0(a.h - PadBorderH(n)))

\* The frames after the first k views of vs were resized, in order, with inside.
RECURSIVE ResizedUpTo(_, _, _, _)
ResizedUpTo(F, vs, inside, k) ==
    IF k = 0 THEN F ELSE resize(ResizedUpTo(F, vs, inside, k - 1), subviews, vs[k], inside)

\* C11: after resize(available) on a view, on each axis its frame size is its
\* measured content plus its own padding and border, the measured content being
\* the larger of content_size(inside) and the largest frame among its subviews
\* as each was left by its resize(inside); after a layout of a tree this holds
\* of every view under the receiver with the frames the layout left.
C11_InsetConservation ==
    /\ \A n \in Nodes : \A r \in screen :
          LET avail == Size(r.w, r.h)
              inside == Size(Floor0(avail.w - PadBorderW(n)), Floor0(avail.h - PadBorderH(n)))
              cs == content_size(n, inside)
              vs == subviews[n]
              F == resize(frame, subviews, n, avail)
              sub == [k \in 1..Len(vs) |-> ResizedUpTo(frame, vs, inside, k)[vs[k]]]
          IN /\ F[n].w = SetMax({cs.w} \cup {sub[k].w : k \in 1..Len(vs)}) + PadBorderW(n)
             /\ F[n].h = SetMax({cs.h} \cup {sub[k].h : k \in 1..Len(vs)}) + PadBorderH(n)
    /\ (op.name = "layout" /\ op.err = NoErr /\ IsTree(op.node)) =>
          \A v \in Reach(subviews, op.node) :
              LET cs == content_size(v, InsideFor(v, op.node, Size(op.arg[1].w, op.arg[1].h)))
                  vs == subviews[v]
              IN /\ frame[v].w = SetMax({cs.w} \cup {frame[vs[k]].w : k \in 1..Len(vs)})
                                     + PadBorderW(v)
                 /\ frame[v].h = SetMax({cs.h} \cup {frame[vs[k]].h : k \in 1..Len(vs)})
                                     + PadBorderH(v)

\* A laid-out tree whose root has padding and a border, and holds a Slider that
\* measured a content wider than zero.
C11_Witness ==
    /\ op.name = "layout" /\ op.err = NoErr /\ IsTree(op.node)
    /\ PadBorderW(op.node) > 2 /\ InsetsWidth(border[op.node]) > 0
    /\ \E v \in Reach(subviews, op.node) :
          /\ kind[v] = "Slider" /\ v # op.node
          /\ frame[v].w > PadBorderW(v)
          /\ frame[op.node].w = frame[v].w + PadBorderW(op.node)

\* Available sizes around and below the insets in use.
TightSizes == {Size(w, h) : w \in {0, 3, 30}, h \in {0, 10, 25}}

\* C12: the inside size resize offers to the subviews and to content_size is
\* never negative, for every available size; each axis is available minus
\* padding minus border when that is not negative and 0 otherwise, whatever the
\* other axis is. A Slider, whose content is as wide as the size it is offered,
\* shows the offered width in its frame after a layout.
C12_InsideClamped ==
    /\ \A n \in Nodes : \A a \in TightSizes \cup {Size(r.w, r.h) : r \in screen} :
          LET inside == InsideOf(n, a) IN
            /\ inside.w >= 0 /\ inside.h >= 0
            /\ inside.w = Floor0(a.w - PadBorderW(n))
            /\ inside.h = Floor0(a.h - PadBorderH(n))
    /\ (op.name = "layout" /\ op.err = NoErr /\ IsTree(op.node)) =>
          \A v \in Reach(subviews, op.node) :
              kind[v] = "Slider" =>
                  /\ frame[v].w = InsideFor(v, op.node, Size(op.arg[1].w, op.arg[1].h)).w
                                     + PadBorderW(v)
                  /\ frame[v].w >= PadBorderW(v)
                  /\ frame[v].h = SliderH + PadBorderH(v)

\* A layout in a viewport lower than the root's insets but wider than them: the
\* Slider below was offered the remaining width and no height.
C12_Witness ==
    /\ op.name = "layout" /\ op.err = NoErr /\ IsTree(op.node)
    /\ op.arg[1].h - PadBorderH(op.node) < 0
    /\ op.arg[1].w - PadBorderW(op.node) > 0
    /\ \E v \in Reach(subviews, op.node) :
          /\ kind[v] = "Slider" /\ parent[v] = op.node /\ PadBorderW(v) = 0
          /\ frame[v].w = op.arg[1].w - PadBorderW(op.node)
          /\ InsideFor(v, op.node, Size(op.arg[1].w, op.arg[1].h)).h = 0

\* The ids of n's subviews, in order.
IdsOf(SV, IX, n) == [i \in 1..Len(SV[n]) |-> SegId(ClassName(SV[n][i]), IX[SV[n][i]])]

\* C13: a rebuild of N that returns leaves N.subviews as long as, and in the
\* order of, the Views N's declaration yields, and the subview at position i
\* has the id "<TypeName>-<i>"; a second rebuild of N with the declaration
\* unchanged leaves the same sequence of ids.
C13_RebuildDeterministic ==
    /\ [](op.name = "rebuild" /\ op.err = NoErr =>
            LET N == op.node IN
              /\ subviews[N] = ViewsOf(content(contents, N))
              /\ \A i \in 1..Len(subviews[N]) :
                    IdSeg(subviews[N][i]) = SegId(ClassName(subviews[N][i]), i - 1))
    /\ [][(/\ op.name = "rebuild" /\ op.err = NoErr
           /\ op'.name = "rebuild" /\ op'.err = NoErr /\ op'.node = op.node
           /\ contents' = contents)
          => IdsOf(subviews', index', op.node) = IdsOf(subviews, index, op.node)]_vars

\* C14: layout(rect) on N reconciles N exactly when N.subviews is empty at the
\* call; a layout that returns has then sized N, centred it in rect with that
\* size, and cleared N.dirty; a layout of a view with subviews leaves every
\* subviews, parent and index as it was, whatever N's declaration now says,
\* and a layout that reconciled leaves the Views the declaration yields; a
\* layout whose reconciliation fails writes no frame and no dirty flag.
C14_LayoutOrchestration ==
    [][op'.name = "layout" =>
          LET N == op'.node
              rect == op'.arg[1]
          IN /\ (op'.rebuilt # <<>>) <=> (subviews[N] = <<>>)
             /\ op'.rebuilt # <<>> => Head(op'.rebuilt) = N
             /\ subviews[N] # <<>> =>
                   (subviews' = subviews /\ parent' = parent /\ index' = index
                    /\ op'.err = NoErr)
             /\ (subviews[N] = <<>> /\ op'.err = NoErr) =>
                   subviews'[N] = ViewsOf(content(contents, N))
             /\ op'.err = NoErr =>
                   /\ frame'[N].w >= PadBorderW(N) /\ frame'[N].h >= PadBorderH(N)
                   /\ \A i \in 1..Len(subviews'[N]) :
                         /\ frame'[N].w >= frame'[subviews'[N][i]].w
                         /\ frame'[N].h >= frame'[subviews'[N][i]].h
                   /\ frame'[N].x = rect.x + ((rect.w - frame'[N].w) \div 2)
                   /\ frame'[N].y = rect.y + ((rect.h - frame'[N].h) \div 2)
                   /\ ~dirty'[N]
             /\ op'.err # NoErr => (frame' = frame /\ dirty' = dirty)]_vars

\* A layout of a root that had subviews while its declaration had been changed
\* since: it returned, sized and centred the root, and the old subviews stand.
C14_Witness ==
    /\ op.name = "layout" /\ op.err = NoErr /\ op.rebuilt = <<>>
    /\ subviews[op.node] # <<>>
    /\ BadAt(content(contents, op.node)) = {}
    /\ subviews[op.node] # ViewsOf(content(contents, op.node))
    /\ frame[op.node].w > PadBorderW(op.node)

\* A view's frame less its own padding and border.
OwnInner(n) == RectSub(RectSub(frame[n], padding[n]), border[n])

\* C15: after a layout of a tree the receiver's frame is centred in the rect it
\* was given, origin = rect.origin + (rect.size - frame.size) div 2, and every
\* subview c of every view N under it is centred in inner = N.frame -
\* N.padding - N.border: c.origin = inner.origin + (inner.size - c.size) div 2.
C15_CentredInOwnInner ==
    (op.name = "layout" /\ op.err = NoErr /\ IsTree(op.node)) =>
        /\ frame[op.node].x = op.arg[1].x + ((op.arg[1].w - frame[op.node].w) \div 2)
        /\ frame[op.node].y = op.arg[1].y + ((op.arg[1].h - frame[op.node].h) \div 2)
        /\ \A N \in Reach(subviews, op.node) : \A i \in 1..Len(subviews[N]) :
              LET c == subviews[N][i]
                  inner == OwnInner(N)
              IN /\ frame[c].x = inner.x + ((inner.w - frame[c].w) \div 2)
                 /\ frame[c].y = inner.y + ((inner.h - frame[c].h) \div 2)

ReadOnlyOps ==
    {"find", "find_all", "resolve", "render", "minimum_size", "content_size"} \cup Hooks

\* C16: a step that changes the subviews, parent or index of any view is a
\* rebuild, a state_changed, or a layout of a view whose subviews was empty; a
\* step that changes a frame is a layout; find, find_all, resolve, render,
\* minimum_size, content_size and the default event hooks leave subviews,
\* parent, index, frame and dirty of every view unchanged.
C16_WriteOwnership ==
    [][/\ (subviews' # subviews \/ parent' # parent \/ index' # index) =>
             \/ op'.name \in {"rebuild", "state_changed"}
             \/ op'.name = "layout" /\ subviews[op'.node] = <<>>
       /\ frame' # frame => op'.name = "layout"
       /\ op'.name \in ReadOnlyOps =>
             (subviews' = subviews /\ parent' = parent /\ index' = index
              /\ frame' = frame /\ dirty' = dirty)]_vars

\* A render of a laid-out, dirty tree drew the root and its subviews, and the
\* frames and the dirty flag are still in place.
C16_Witness ==
    /\ op.name = "render" /\ Len(op.res) > 1
    /\ dirty[op.node] /\ frame[op.node].w > 0
    /\ subviews[op.node] # <<>>

\* Rect c lies within rect r on both axes.
Within(c, r) ==
    /\ c.x >= r.x /\ c.x + c.w <= r.x + r.w
    /\ c.y >= r.y /\ c.y + c.h <= r.y + r.h

\* C17: after layout(rect) of a tree of default Views, for every viewport,
\* every subview's frame lies within its parent's frame less the parent's
\* padding and border, on both axes.
C17_SubviewsContained ==
    (/\ op.name = "layout" /\ op.err = NoErr /\ IsTree(op.node)
     /\ \A v \in Reach(subviews, op.node) : kind[v] = "View")
    => \A N \in Reach(subviews, op.node) : \A i \in 1..Len(subviews[N]) :
          Within(frame[subviews[N][i]], OwnInner(N))

\* A three-level tree laid out in a viewport smaller than the root's frame,
\* with padding on the root and on the view below it.
C17_Witness ==
    /\ op.name = "layout" /\ op.err = NoErr /\ IsTree(op.node)
    /\ \A v \in Reach(subviews, op.node) : kind[v] = "View"
    /\ op.arg[1].h < frame[op.node].h
    /\ PadBorderW(op.node) > 0
    /\ \E c \in Nodes : /\ parent[c] = op.node /\ subviews[c] # <<>>
                        /\ c \in Reach(subviews, op.node)
                        /\ PadBorderH(c) = 1
                        /\ frame[subviews[c][1]].w < frame[c].w

\* C18: after a reconciliation of a root, the ids of the subviews of every view
\* under it are pairwise distinct, and root.resolve(v.id_path) returns v for
\* every view v reachable from the root through subviews.
C18_IdPathRoundTrip ==
    (op.name = "rebuild" /\ op.err = NoErr /\ parent[op.node] = NoView) =>
        /\ \A N \in Reach(subviews, op.node) :
              \A i \in 1..Len(subviews[N]) : \A j \in 1..Len(subviews[N]) :
                  i # j => IdSeg(subviews[N][i]) # IdSeg(subviews[N][j])
        /\ \A v \in Reach(subviews, op.node) :
              resolve(op.node, id_path(v)) = Found(v)

SliderOps == {"Slider.mousemotion", "Slider.click", "Slider.keydown"}

\* C19: a Slider whose bound value starts within [minimum, maximum] keeps it an
\* integer within [minimum, maximum] through every mousemotion, click and
\* keydown; each of them writes the bound value, and so notifies the host
\* view, exactly when the value it leaves differs from the value it found; an
\* arrow key moves the value by 1, or by span div 10 with shift, up to the
\* nearer bound, and any other key leaves it.
C19_SliderInRange ==
    /\ [](current \in minimum..maximum)
    /\ [][op'.name \in SliderOps =>
            /\ op'.arg.wrote <=> current' # current
            /\ op'.arg.wrote => dirty'[RootOf(parent', TheHost)]
            /\ ~op'.arg.wrote => (dirty' = dirty /\ subviews' = subviews)
            /\ op'.name = "Slider.keydown" =>
                  LET key == op'.arg.input[1]
                      step == IF op'.arg.input[2] THEN (maximum - minimum + 1) \div 10 ELSE 1
                  IN /\ key = "RIGHT" =>
                           current' = IF current + step > maximum THEN maximum
                                      ELSE current + step
                     /\ key = "LEFT" =>
                           current' = IF current - step < minimum THEN minimum
                                      ELSE current - step
                     /\ key = "OTHER" => current' = current]_vars

\* Shift-RIGHT (a step of 2) one short of the maximum of a Slider of span 21:
\* the value went to the maximum, was written, and the host is dirty.
C19_Witness ==
    /\ op.name = "Slider.keydown" /\ op.arg.input = <<"RIGHT", TRUE>>
    /\ maximum - minimum = 20
    /\ op.res = <<maximum - 1, maximum>>
    /\ op.arg.wrote /\ dirty[TheHost]

\* The characters of t whose 0-based index is not in S, in order.
RECURSIVE Without(_, _, _)
Without(t, S, i) ==
    IF i >= Len(t) THEN <<>>
    ELSE (IF i \in S THEN <<>> ELSE <<t[i + 1]>>) \o Without(t, S, i + 1)

\* C20: BACKSPACE on a TextField with an active selection removes from the
\* bound text exactly the characters at the indices the selection property
\* reports, min(_start, _end) through max(_start, _end) inclusive, and leaves
\* the selection None; with no active selection it removes the last character.
C20_BackspaceDeletesSelection ==
    [][(op'.name = "TextField.keydown" /\ op'.arg = <<"BACKSPACE">>) =>
          IF ~selection.none
          THEN /\ text' = Without(text, selection.indices, 0)
               /\ _start' = None \/ _end' = None
          ELSE text' = SubSeq(text, 1, Len(text) - 1)]_vars
====
